---------------------------- MODULE Spec2Model ----------------------------
(***************************************************************************)
(* A model of U-FISH's command line object, UFishCLI (src/ufish/cli.py),   *)
(* and of the spot callers it drives.                                      *)
(*                                                                         *)
(* UFishCLI keeps one piece of state of its own, the _weights_loaded flag, *)
(* and works on files: it reads an image, hands it to the UFish API object *)
(* and writes what comes back.  The API object (ufish/api.py) is not among *)
(* the sources; its spot callers are modelled from the design document     *)
(* (sections 4.1 to 4.4) and are marked as such where they are defined.    *)
(***************************************************************************)
EXTENDS Integers, Sequences, FiniteSets, TLC

(***************************************************************************)
(* Bounds of the model.                                                    *)
(***************************************************************************)
\* Intensities run from -1 to MaxIntensity.
MaxIntensity == 2

(***************************************************************************)
(* Images.  An image is its shape and a function from pixel coordinates    *)
(* (axis-0, axis-1), counted from 0, to integer intensities.               *)
(***************************************************************************)
Intensities == -1 .. MaxIntensity

Coords(shape) == (0 .. shape[1] - 1) \X (0 .. shape[2] - 1)

ImagesOfShape(shape) ==
    { [shape |-> shape, px |-> f] : f \in [Coords(shape) -> Intensities] }

\* The images of the callers' specification: every image of two rows and
\* three columns.
AllImages == ImagesOfShape(<<2, 3>>)

\* The image given by its rows, for writing sample images down.
ImageOfRows(rows) ==
    [shape |-> <<Len(rows), Len(rows[1])>>,
     px |-> [p \in Coords(<<Len(rows), Len(rows[1])>>) |-> rows[p[1] + 1][p[2] + 1]]]

(***************************************************************************)
(* Arithmetic helpers.  Sub-pixel coordinates are fractions <<num, den>>;  *)
(* a fraction with den = 0 is what a floating-point division by zero       *)
(* leaves (NaN), which compares false with everything.                     *)
(***************************************************************************)
RECURSIVE SumOver(_, _)
SumOver(S, f) ==
    IF S = {} THEN 0
    ELSE LET x == CHOOSE y \in S : TRUE
         IN f[x] + SumOver(S \ {x}, f)

Frac(num, den) == <<num, den>>

\* 0 <= q < n for the fraction q, false for NaN.
FracInRange(q, n) ==
    \/ q[2] > 0 /\ 0 <= q[1] /\ q[1] < n * q[2]
    \/ q[2] < 0 /\ q[1] <= 0 /\ -q[1] < n * (-q[2])

\* Equality of fractions as numbers (NaN equals nothing).
FracEq(q, r) == q[2] # 0 /\ r[2] # 0 /\ q[1] * r[2] = r[1] * q[2]

(***************************************************************************)
(* Raster order and adjacency.                                             *)
(***************************************************************************)
RasterIndex(p, shape) == p[1] * shape[2] + p[2]

\* The first pixel of a non-empty set in row-major scan order.
RasterFirst(S, shape) ==
    CHOOSE p \in S : \A q \in S : RasterIndex(p, shape) <= RasterIndex(q, shape)

Abs(x) == IF x < 0 THEN -x ELSE x

\* connectivity 1: axis-aligned neighbours; 2 (or more): diagonals too.
Adjacent(p, q, connectivity) ==
    /\ p # q
    /\ Abs(p[1] - q[1]) <= 1
    /\ Abs(p[2] - q[2]) <= 1
    /\ Abs(p[1] - q[1]) + Abs(p[2] - q[2]) <= connectivity

\* Flood fill: the pixels of S reachable from C through adjacent pixels of S.
RECURSIVE Grow(_, _, _)
Grow(C, S, connectivity) ==
    LET N == { q \in S \ C : \E p \in C : Adjacent(p, q, connectivity) }
    IN IF N = {} THEN C ELSE Grow(C \cup N, S, connectivity)

\* The groups of S in the order a raster scan meets their first pixels; a
\* group is grown from its seed inside within[seed].
RECURSIVE LabelGroups(_, _, _, _)
LabelGroups(S, shape, connectivity, within) ==
    IF S = {} THEN <<>>
    ELSE LET seed == RasterFirst(S, shape)
             grp == Grow({seed}, within[seed], connectivity)
         IN <<grp>> \o LabelGroups(S \ grp, shape, connectivity, within)

(***************************************************************************)
(* Parameters.  binary_threshold is a method name or a number.             *)
(***************************************************************************)
Named(n) == [kind |-> "name", name |-> n, num |-> 0]
Numeric(v) == [kind |-> "num", name |-> "", num |-> v]

BinaryThresholds == {Named("otsu"), Named("li"), Numeric(-2), Numeric(0)}
CCSizeThresholds == {0, 1, 2}
Connectivities == {1, 2}

\* The defaults of the commands' keyword arguments.
DefaultCCSizeThresh == 20
DefaultConnectivity == 2
IntensityThresholds == {-2, 0, 1}

(***************************************************************************)
(* The result table: the column names and the ordered Spot rows, each row  *)
(* <<axis-0, axis-1, intensity>>; err is the error raised instead, if any. *)
(***************************************************************************)
AxisColumns == <<"axis-0", "axis-1", "intensity">>

ResultTable(rows) == [err |-> "none", columns |-> AxisColumns, rows |-> rows]
Raised(e) == [err |-> e, columns |-> <<>>, rows |-> <<>>]

(***************************************************************************)
(* 4.1 Thresholder.  Otsu's method over the image's own values: the cut t  *)
(* that maximises the between-class variance of {<= t} and {> t}, which is *)
(* (s0*n1 - s1*n0)^2 / (n0*n1) up to the constant factor 1/N^2; the lowest *)
(* such t on ties.  A single-valued image has the one cut with an empty    *)
(* upper class, so nothing lies above it.                                  *)
(***************************************************************************)
OtsuScore(img, t) ==
    LET lo == { p \in DOMAIN img.px : img.px[p] <= t }
        hi == { p \in DOMAIN img.px : img.px[p] > t }
        n0 == Cardinality(lo)
        n1 == Cardinality(hi)
        d  == SumOver(lo, img.px) * n1 - SumOver(hi, img.px) * n0
    IN IF n1 = 0 THEN Frac(0, 1) ELSE Frac(d * d, n0 * n1)

threshold_otsu(img) ==
    LET vals  == { img.px[p] : p \in DOMAIN img.px }
        score == [t \in vals |-> OtsuScore(img, t)]
        best  == { t \in vals : \A u \in vals :
                     score[u][1] * score[t][2] <= score[t][1] * score[u][2] }
    IN CHOOSE t \in best : \A u \in best : t <= u

KnownThreshold(threshold) == threshold.kind = "num" \/ threshold.name = "otsu"

ThresholdValue(img, threshold) ==
    IF threshold.kind = "num" THEN threshold.num ELSE threshold_otsu(img)

\* Mutant of binarize: the comparison is not strict.
binarize_inclusive(img, threshold) ==
    { p \in DOMAIN img.px : img.px[p] >= ThresholdValue(img, threshold) }

\* The foreground: the pixels strictly above the threshold.
binarize(img, threshold) ==
    { p \in DOMAIN img.px : img.px[p] > ThresholdValue(img, threshold) }

(***************************************************************************)
(* 4.2 ConnectedComponentCaller.                                           *)
(***************************************************************************)
\* Step 2: the 8-connected components of the mask, in label order.
label(mask, shape) ==
    LabelGroups(mask, shape, 2, [seed \in mask |-> mask])

\* Step 3: a component survives unless its pixel count is < cc_size_thresh.
Survives(comp, cc_size_thresh) == Cardinality(comp) >= cc_size_thresh

\* Steps 4 and 5: the intensity-weighted centroid and average intensity.
WeightedSpot(img, comp) ==
    LET w  == SumOver(comp, img.px)
        m0 == SumOver(comp, [p \in comp |-> p[1] * img.px[p]])
        m1 == SumOver(comp, [p \in comp |-> p[2] * img.px[p]])
        ii == SumOver(comp, [p \in comp |-> img.px[p] * img.px[p]])
    IN <<Frac(m0, w), Frac(m1, w), Frac(ii, w)>>

UFish_call_spots_cc_center(img, binary_threshold, cc_size_thresh) ==
    IF ~KnownThreshold(binary_threshold) THEN Raised("InvalidThresholdMethod")
    ELSE LET comps == label(binarize(img, binary_threshold), img.shape)
             kept  == SelectSeq(comps, LAMBDA c : Survives(c, cc_size_thresh))
         IN ResultTable([i \in 1 .. Len(kept) |-> WeightedSpot(img, kept[i])])

(***************************************************************************)
(* 4.3 LocalMaximaCaller.                                                  *)
(***************************************************************************)
\* Step 1 and 3: not below any in-bounds neighbour, and above the threshold.
IsLocalMaximum(img, p, connectivity, intensity_threshold) ==
    /\ \A q \in DOMAIN img.px :
          Adjacent(p, q, connectivity) => img.px[p] >= img.px[q]
    /\ img.px[p] > intensity_threshold

local_maxima(img, connectivity, intensity_threshold) ==
    { p \in DOMAIN img.px : IsLocalMaximum(img, p, connectivity, intensity_threshold) }

\* Step 2: adjacent maxima of equal intensity are one plateau.
plateaus(img, connectivity, intensity_threshold) ==
    LET maxima == local_maxima(img, connectivity, intensity_threshold)
    IN LabelGroups(maxima, img.shape, connectivity,
                   [seed \in maxima |-> { q \in maxima : img.px[q] = img.px[seed] }])

\* One Spot per plateau: the unweighted mean of its pixels, its intensity.
PlateauSpot(img, plateau) ==
    LET n == Cardinality(plateau)
        seed == RasterFirst(plateau, img.shape)
    IN <<Frac(SumOver(plateau, [p \in plateau |-> p[1]]), n),
         Frac(SumOver(plateau, [p \in plateau |-> p[2]]), n),
         Frac(img.px[seed], 1)>>

UFish_call_spots_local_maxima(img, connectivity, intensity_threshold) ==
    LET ps == plateaus(img, connectivity, intensity_threshold)
    IN ResultTable([i \in 1 .. Len(ps) |-> PlateauSpot(img, ps[i])])

(***************************************************************************)
(* The enhancement model is a black box: an image of the same shape.  The  *)
(* CLI specification lets it return any sample image of that shape.        *)
(***************************************************************************)
SampleImages ==
    { ImageOfRows(<<<<0, 0, 0>>>>),
      ImageOfRows(<<<<1, 0, 2>>>>) }

UFish_enhance_img(img) == { e \in SampleImages : e.shape = img.shape }

\* pred_2d: enhance, then call the local maxima of the enhanced image.
UFish_pred_2d(enhanced, connectivity, intensity_threshold) ==
    UFish_call_spots_local_maxima(enhanced, connectivity, intensity_threshold)

(***************************************************************************)
(* Files.  A path is <<directory, name>>, a name a sequence of tokens with *)
(* "." a token of its own; fs maps the paths that exist to their content.  *)
(***************************************************************************)
NoImage == [shape |-> <<0, 0>>, px |-> <<>>]
ImageFile(img) == [kind |-> "image", image |-> img, text |-> <<>>]
CsvFile(lines) == [kind |-> "csv", image |-> NoImage, text |-> lines]
OtherFile == [kind |-> "other", image |-> NoImage, text |-> <<>>]

None == <<"", <<>>>>

\* skimage.io.imread: the image, when the path is a readable image file.
CanRead(files, path) == path \in DOMAIN files /\ files[path].kind = "image"

\* A write creates the file or replaces its content.
WriteFile(files, path, content) ==
    [p \in DOMAIN files \cup {path} |-> IF p = path THEN content ELSE files[p]]

\* DataFrame.to_csv(path, index=...): the header line, then one line per
\* row, each led by the row's number when index is true.
to_csv(df, index) ==
    <<(IF index THEN <<"">> ELSE <<>>) \o df.columns>>
        \o [i \in 1 .. Len(df.rows) |->
              (IF index THEN <<Frac(i - 1, 1)>> ELSE <<>>) \o df.rows[i]]

\* os.path.splitext(name)[0]: the name up to its last ".", unless only
\* dots come before it.
splitext_root(name) ==
    LET dots == { i \in 1 .. Len(name) : name[i] = "." }
        last == CHOOSE i \in dots : \A j \in dots : j <= i
    IN IF dots = {} \/ \A j \in 1 .. last - 1 : name[j] = "."
       THEN name
       ELSE SubSeq(name, 1, last - 1)

PredSuffix == <<".", "pred", ".", "csv">>
EnhancedSuffix == <<".", "enhanced", ".", "tif">>

(***************************************************************************)
(* State.                                                                  *)
(*   weights_loaded  UFishCLI._weights_loaded                              *)
(*   fs              the files                                             *)
(*   pc, batch       where pred_2d_imgs stands in its loop, and its locals *)
(*   lastOp          the call that ended last: its arguments and what it   *)
(*                   did (history)                                         *)
(*   ever_loaded     a weight load has completed (history)                 *)
(*   load_failed     a weight load has raised (history)                    *)
(*   ncalls          the commands this object has been given (history)     *)
(***************************************************************************)
VARIABLES weights_loaded, fs, pc, batch, lastOp, ever_loaded, load_failed, ncalls

vars == <<weights_loaded, fs, pc, batch, lastOp, ever_loaded, load_failed, ncalls>>

\* One object is given at most MaxCalls commands (a chain of commands on one
\* command line).
MaxCalls == 2

\* At most MaxEntries files lie in the input directory.
MaxEntries == 2

EntryNames ==
    { <<"a", ".", "tif">>, <<"a", ".", "png">>, <<"b", ".", "tif">> }

InDirs == { S \in SUBSET EntryNames : Cardinality(S) <= MaxEntries }

EntryContents == { ImageFile(i) : i \in SampleImages } \cup {OtherFile}

InPath(name) == <<"in", name>>
OutPath(name) == <<"out", name>>

\* Where the single-file commands are asked to write.
OutImagePath == OutPath(<<"e", ".", "tif">>)
OutCsvPath == OutPath(<<"s", ".", "csv">>)

Entries(files, dir) == { p[2] : p \in { q \in DOMAIN files : q[1] = dir } }

NoBatch == [todo |-> {}, save |-> FALSE, args |-> <<0, 0>>, loads |-> 0, calls |-> 0]

NoTable == Raised("none")

NoLoad == [attempted |-> FALSE, source |-> "", raised |-> FALSE, loaded |-> FALSE]

\* The record of a call: w is what it did about the weights, returned the
\* table the API returned or the error that ended the call.
Op(op, inp, out, args, w, invoked, returned) ==
    [op |-> op, inp |-> inp, out |-> out, args |-> args, returned |-> returned,
     load_attempted |-> w.attempted, load_source |-> w.source,
     load_done |-> w.attempted /\ ~w.raised,
     model_invoked |-> invoked,
     err |-> IF w.raised THEN "LoadError" ELSE returned.err]

\* __init__ (line 22): the flag starts False.
Init ==
    /\ weights_loaded = FALSE
    /\ \E S \in InDirs : \E f \in [S -> EntryContents] :
          fs = [p \in { InPath(n) : n \in S } |-> f[p[2]]]
    /\ pc = "idle"
    /\ batch = NoBatch
    /\ lastOp = Op("__init__", None, None, <<>>, NoLoad, FALSE, NoTable)
    /\ ever_loaded = FALSE
    /\ load_failed = FALSE
    /\ ncalls = 0

(***************************************************************************)
(* load_weights (lines 34-60).  ok: the API's load returned; otherwise it  *)
(* raised and the assignment of line 59 is not reached.                    *)
(***************************************************************************)
\* Mutant of load_weights_call: the flag is set before the load is tried.
load_weights_call_flag_first(weights_path, ok) ==
    [attempted |-> TRUE,
     source |-> IF weights_path # None THEN "local" ELSE "internet",
     raised |-> ~ok,
     loaded |-> TRUE]

load_weights_call(weights_path, ok) ==
    [attempted |-> TRUE,
     source |-> IF weights_path # None THEN "local" ELSE "internet",
     raised |-> ~ok,
     loaded |-> IF ok THEN TRUE ELSE weights_loaded]

load_weights(weights_path, ok) ==
    LET w == load_weights_call(weights_path, ok)
    IN /\ pc = "idle"
       /\ ncalls < MaxCalls
       /\ ncalls' = ncalls + 1
       /\ weights_loaded' = w.loaded
       /\ ever_loaded' = (ever_loaded \/ ~w.raised)
       /\ load_failed' = (load_failed \/ w.raised)
       /\ lastOp' = Op("load_weights", weights_path, None, <<>>, w, FALSE, NoTable)
       /\ UNCHANGED <<fs, pc, batch>>

\* Mutant of ensure_weights: the guarded load is left out.
ensure_weights_skipped(ok) ==
    [attempted |-> FALSE, source |-> "", raised |-> FALSE, loaded |-> weights_loaded]

\* The guard of lines 69-70, 152-153 and 184-185:
\*     if not self._weights_loaded: self.load_weights()
ensure_weights(ok) ==
    IF ~weights_loaded
    THEN load_weights_call(None, ok)
    ELSE [attempted |-> FALSE, source |-> "", raised |-> FALSE,
          loaded |-> weights_loaded]

\* The outcomes a load can have where one is attempted.
LoadOutcomes == IF weights_loaded THEN {TRUE} ELSE BOOLEAN

(***************************************************************************)
(* enhance_img (lines 62-75).                                              *)
(***************************************************************************)
enhance_img(input_img_path, output_img_path, ok) ==
    LET w == ensure_weights(ok)
        readable == CanRead(fs, input_img_path)
    IN /\ pc = "idle"
       /\ ncalls < MaxCalls
       /\ ncalls' = ncalls + 1
       /\ weights_loaded' = w.loaded
       /\ ever_loaded' = (ever_loaded \/ (w.attempted /\ ~w.raised))
       /\ load_failed' = (load_failed \/ w.raised)
       /\ UNCHANGED <<pc, batch>>
       /\ IF w.raised \/ ~readable
          THEN /\ fs' = fs
               /\ lastOp' = Op("enhance_img", input_img_path, output_img_path, <<>>,
                               w, FALSE, Raised("ReadError"))
          ELSE \E enhanced \in UFish_enhance_img(fs[input_img_path].image) :
               /\ fs' = WriteFile(fs, output_img_path, ImageFile(enhanced))
               /\ lastOp' = Op("enhance_img", input_img_path, output_img_path, <<>>,
                               w, TRUE, NoTable)

(***************************************************************************)
(* The spot callers (lines 77-104 and 106-132).  The API call comes first; *)
(* when it raises, to_csv is not reached.                                  *)
(***************************************************************************)
\* Mutant of save_spots: to_csv with its default, index=True.
save_spots_with_index(files, output_csv_path, pred_df) ==
    IF pred_df.err # "none"
    THEN files
    ELSE WriteFile(files, output_csv_path, CsvFile(to_csv(pred_df, TRUE)))

\* Mutant of save_spots: a table without rows is not written.
save_spots_unless_empty(files, output_csv_path, pred_df) ==
    IF pred_df.err # "none" \/ pred_df.rows = <<>>
    THEN files
    ELSE WriteFile(files, output_csv_path, CsvFile(to_csv(pred_df, FALSE)))

\* Mutant of save_spots: a table is written whether or not the API raised.
save_spots_unconditional(files, output_csv_path, pred_df) ==
    WriteFile(files, output_csv_path, CsvFile(to_csv(pred_df, FALSE)))

\* pred_df.to_csv(output_csv_path, index=False), lines 103, 131 and 161.
save_spots(files, output_csv_path, pred_df) ==
    IF pred_df.err # "none"
    THEN files
    ELSE WriteFile(files, output_csv_path, CsvFile(to_csv(pred_df, FALSE)))

\* Mutant of call_spots_cc_center: cc_size_thresh is not handed on, so that
\* the API's default applies.
call_spots_cc_center_default_size(enhanced_img_path, output_csv_path, binary_threshold, cc_size_thresh) ==
    LET readable == CanRead(fs, enhanced_img_path)
        pred_df == IF readable
                   THEN UFish_call_spots_cc_center(fs[enhanced_img_path].image,
                                                   binary_threshold,
                                                   DefaultCCSizeThresh)
                   ELSE Raised("ReadError")
    IN /\ pc = "idle"
       /\ ncalls < MaxCalls
       /\ ncalls' = ncalls + 1
       /\ fs' = save_spots(fs, output_csv_path, pred_df)
       /\ lastOp' = Op("call_spots_cc_center", enhanced_img_path, output_csv_path,
                       <<binary_threshold, cc_size_thresh>>, NoLoad, FALSE, pred_df)
       /\ UNCHANGED <<weights_loaded, ever_loaded, load_failed, pc, batch>>

\* Mutant of call_spots_cc_center: it opens with the guarded load of the
\* commands that use the model.
call_spots_cc_center_loading(enhanced_img_path, output_csv_path, binary_threshold, cc_size_thresh) ==
    \E ok \in LoadOutcomes :
       LET w == ensure_weights(ok)
           readable == CanRead(fs, enhanced_img_path)
           pred_df == IF w.raised \/ ~readable
                      THEN Raised("ReadError")
                      ELSE UFish_call_spots_cc_center(fs[enhanced_img_path].image,
                                                      binary_threshold, cc_size_thresh)
       IN /\ pc = "idle"
          /\ ncalls < MaxCalls
          /\ ncalls' = ncalls + 1
          /\ weights_loaded' = w.loaded
          /\ ever_loaded' = (ever_loaded \/ (w.attempted /\ ~w.raised))
          /\ load_failed' = (load_failed \/ w.raised)
          /\ fs' = save_spots(fs, output_csv_path, pred_df)
          /\ lastOp' = Op("call_spots_cc_center", enhanced_img_path, output_csv_path,
                          <<binary_threshold, cc_size_thresh>>, w, FALSE, pred_df)
          /\ UNCHANGED <<pc, batch>>

call_spots_cc_center(enhanced_img_path, output_csv_path, binary_threshold, cc_size_thresh) ==
    LET readable == CanRead(fs, enhanced_img_path)
        pred_df == IF readable
                   THEN UFish_call_spots_cc_center(fs[enhanced_img_path].image,
                                                   binary_threshold, cc_size_thresh)
                   ELSE Raised("ReadError")
    IN /\ pc = "idle"
       /\ ncalls < MaxCalls
       /\ ncalls' = ncalls + 1
       /\ fs' = save_spots(fs, output_csv_path, pred_df)
       /\ lastOp' = Op("call_spots_cc_center", enhanced_img_path, output_csv_path,
                       <<binary_threshold, cc_size_thresh>>, NoLoad, FALSE, pred_df)
       /\ UNCHANGED <<weights_loaded, ever_loaded, load_failed, pc, batch>>

\* Mutant of call_spots_local_maxima: connectivity is not handed on, so that
\* the API's default applies.
call_spots_local_maxima_default_connectivity(enhanced_img_path, output_csv_path, connectivity, intensity_threshold) ==
    LET readable == CanRead(fs, enhanced_img_path)
        pred_df == IF readable
                   THEN UFish_call_spots_local_maxima(fs[enhanced_img_path].image,
                                                      DefaultConnectivity,
                                                      intensity_threshold)
                   ELSE Raised("ReadError")
    IN /\ pc = "idle"
       /\ ncalls < MaxCalls
       /\ ncalls' = ncalls + 1
       /\ fs' = save_spots(fs, output_csv_path, pred_df)
       /\ lastOp' = Op("call_spots_local_maxima", enhanced_img_path, output_csv_path,
                       <<connectivity, intensity_threshold>>, NoLoad, FALSE, pred_df)
       /\ UNCHANGED <<weights_loaded, ever_loaded, load_failed, pc, batch>>

call_spots_local_maxima(enhanced_img_path, output_csv_path, connectivity, intensity_threshold) ==
    LET readable == CanRead(fs, enhanced_img_path)
        pred_df == IF readable
                   THEN UFish_call_spots_local_maxima(fs[enhanced_img_path].image,
                                                      connectivity, intensity_threshold)
                   ELSE Raised("ReadError")
    IN /\ pc = "idle"
       /\ ncalls < MaxCalls
       /\ ncalls' = ncalls + 1
       /\ fs' = save_spots(fs, output_csv_path, pred_df)
       /\ lastOp' = Op("call_spots_local_maxima", enhanced_img_path, output_csv_path,
                       <<connectivity, intensity_threshold>>, NoLoad, FALSE, pred_df)
       /\ UNCHANGED <<weights_loaded, ever_loaded, load_failed, pc, batch>>

(***************************************************************************)
(* pred_2d_img (lines 134-165): what one call does to the flag and the     *)
(* files, given the outcome ok of a load and the model's output enhanced.  *)
(***************************************************************************)
pred_2d_img_call(input_img_path, output_csv_path, enhanced_output_path, connectivity, intensity_threshold, ok, enhanced) ==
    LET w == ensure_weights(ok)
        readable == CanRead(fs, input_img_path)
        pred_df == UFish_pred_2d(enhanced, connectivity, intensity_threshold)
        saved == save_spots(fs, output_csv_path, pred_df)
    IN IF w.raised \/ ~readable
       THEN [w |-> w, files |-> fs, invoked |-> FALSE,
             returned |-> Raised("ReadError")]
       ELSE [w |-> w,
             files |-> IF enhanced_output_path # None
                       THEN WriteFile(saved, enhanced_output_path, ImageFile(enhanced))
                       ELSE saved,
             invoked |-> TRUE, returned |-> pred_df]

\* The model's possible outputs for the file at path (none to choose from
\* when it cannot be read: the model is not reached).
EnhancedOf(path) ==
    IF CanRead(fs, path) THEN UFish_enhance_img(fs[path].image) ELSE {NoImage}

pred_2d_img(input_img_path, output_csv_path, enhanced_output_path, connectivity, intensity_threshold, ok) ==
    \E enhanced \in EnhancedOf(input_img_path) :
       LET r == pred_2d_img_call(input_img_path, output_csv_path,
                                 enhanced_output_path, connectivity,
                                 intensity_threshold, ok, enhanced)
       IN /\ pc = "idle"
          /\ ncalls < MaxCalls
          /\ ncalls' = ncalls + 1
          /\ weights_loaded' = r.w.loaded
          /\ ever_loaded' = (ever_loaded \/ (r.w.attempted /\ ~r.w.raised))
          /\ load_failed' = (load_failed \/ r.w.raised)
          /\ fs' = r.files
          /\ lastOp' = Op("pred_2d_img", input_img_path, output_csv_path,
                          <<connectivity, intensity_threshold, enhanced_output_path>>,
                          r.w, r.invoked, r.returned)
          /\ UNCHANGED <<pc, batch>>

(***************************************************************************)
(* pred_2d_imgs (lines 167-201), one step per pass of its loop.            *)
(***************************************************************************)
\* Lines 184-190: the guarded load, then the listing of the directory.
pred_2d_imgs_start(save_enhanced_img, connectivity, intensity_threshold, ok) ==
    LET w == ensure_weights(ok)
    IN /\ pc = "idle"
       /\ ncalls < MaxCalls
       /\ ncalls' = ncalls + 1
       /\ weights_loaded' = w.loaded
       /\ ever_loaded' = (ever_loaded \/ (w.attempted /\ ~w.raised))
       /\ load_failed' = (load_failed \/ w.raised)
       /\ fs' = fs
       /\ IF w.raised
          THEN /\ lastOp' = Op("pred_2d_imgs", InPath(<<>>), OutPath(<<>>),
                               <<connectivity, intensity_threshold, save_enhanced_img>>,
                               w, FALSE, NoTable)
               /\ UNCHANGED <<pc, batch>>
          ELSE /\ pc' = "batch"
               /\ batch' = [todo |-> Entries(fs, "in"), save |-> save_enhanced_img,
                            args |-> <<connectivity, intensity_threshold>>,
                            loads |-> IF w.attempted THEN 1 ELSE 0, calls |-> 0]
               /\ lastOp' = Op("pred_2d_imgs_start", InPath(<<>>), OutPath(<<>>),
                               <<connectivity, intensity_threshold, save_enhanced_img>>,
                               w, FALSE, NoTable)

\* Lines 191-201: one entry, in whatever order iterdir yields them.  An
\* exception of pred_2d_img ends the loop.
pred_2d_imgs_iter(ok) ==
    /\ pc = "batch"
    /\ \E name \in batch.todo :
       \E enhanced \in EnhancedOf(InPath(name)) :
          LET input_prefix == splitext_root(name)
              output_path == OutPath(input_prefix \o PredSuffix)
              enhanced_img_path == OutPath(input_prefix \o EnhancedSuffix)
              r == pred_2d_img_call(InPath(name), output_path,
                                    IF batch.save THEN enhanced_img_path ELSE None,
                                    batch.args[1], batch.args[2], ok, enhanced)
          IN /\ ncalls' = ncalls
             /\ weights_loaded' = r.w.loaded
             /\ ever_loaded' = (ever_loaded \/ (r.w.attempted /\ ~r.w.raised))
             /\ load_failed' = (load_failed \/ r.w.raised)
             /\ fs' = r.files
             /\ lastOp' = Op(IF r.returned.err = "none" /\ ~r.w.raised
                             THEN "pred_2d_imgs_iter" ELSE "pred_2d_imgs",
                             InPath(name), output_path,
                             <<batch.args[1], batch.args[2],
                               IF batch.save THEN enhanced_img_path ELSE None>>,
                             r.w, r.invoked, r.returned)
             /\ IF r.returned.err = "none" /\ ~r.w.raised
                THEN /\ pc' = "batch"
                     /\ batch' = [batch EXCEPT !.todo = @ \ {name},
                                               !.loads = @ + (IF r.w.attempted THEN 1 ELSE 0),
                                               !.calls = @ + 1]
                ELSE /\ pc' = "idle"
                     /\ batch' = NoBatch

\* The loop ran out of entries: pred_2d_imgs returns.
pred_2d_imgs_return ==
    /\ pc = "batch"
    /\ batch.todo = {}
    /\ pc' = "idle"
    /\ batch' = NoBatch
    /\ lastOp' = Op("pred_2d_imgs", InPath(<<>>), OutPath(<<>>),
                    <<batch.loads, batch.calls>>, NoLoad, FALSE, NoTable)
    /\ UNCHANGED <<weights_loaded, ever_loaded, load_failed, fs, ncalls>>

(***************************************************************************)
(* The specification of the command line object.                           *)
(***************************************************************************)
\* The paths the single-file commands are asked to read: the input files
\* and the enhanced image, whether written yet or not.
InputPaths == { p \in DOMAIN fs : p[1] = "in" } \cup {OutImagePath}

\* The parameter values the commands of this specification are given.
CliBinaryThresholds == {Named("otsu"), Named("li")}
CliCCSizeThresholds == {1, 3}
CliConnectivities == {2}
CliIntensityThresholds == {0}

Next ==
    \/ \E weights_path \in {None, InPath(<<"w", ".", "pth">>)}, ok \in BOOLEAN :
          load_weights(weights_path, ok)
    \/ \E inp \in InputPaths, ok \in LoadOutcomes :
          enhance_img(inp, OutImagePath, ok)
    \/ \E inp \in InputPaths, bt \in CliBinaryThresholds, cc \in CliCCSizeThresholds :
          call_spots_cc_center(inp, OutCsvPath, bt, cc)
    \/ \E inp \in InputPaths, c \in CliConnectivities, it \in CliIntensityThresholds :
          call_spots_local_maxima(inp, OutCsvPath, c, it)
    \/ \E inp \in InputPaths, enh \in {None, OutImagePath}, c \in CliConnectivities,
          it \in CliIntensityThresholds, ok \in LoadOutcomes :
          pred_2d_img(inp, OutCsvPath, enh, c, it, ok)
    \/ \E save \in BOOLEAN, c \in CliConnectivities, it \in CliIntensityThresholds,
          ok \in LoadOutcomes :
          pred_2d_imgs_start(save, c, it, ok)
    \/ \E ok \in LoadOutcomes : pred_2d_imgs_iter(ok)
    \/ pred_2d_imgs_return

Spec == Init /\ [][Next]_vars

(***************************************************************************)
(* The specification of the spot callers alone: a fresh object, an         *)
(* enhanced image that is any image of the bounded set, and one call of a  *)
(* caller with any of the parameter values.                                *)
(***************************************************************************)
InitCallers ==
    /\ weights_loaded = FALSE
    /\ \E img \in AllImages : fs = [p \in {OutImagePath} |-> ImageFile(img)]
    /\ pc = "idle"
    /\ batch = NoBatch
    /\ lastOp = Op("__init__", None, None, <<>>, NoLoad, FALSE, NoTable)
    /\ ever_loaded = FALSE
    /\ load_failed = FALSE
    /\ ncalls = 0

NextCallers ==
    /\ ncalls = 0
    /\ \/ \E bt \in BinaryThresholds, cc \in CCSizeThresholds :
             call_spots_cc_center(OutImagePath, OutCsvPath, bt, cc)
       \/ \E c \in Connectivities, it \in IntensityThresholds :
             call_spots_local_maxima(OutImagePath, OutCsvPath, c, it)

SpecCallers == InitCallers /\ [][NextCallers]_vars

(***************************************************************************)
(* What the claims speak of.                                               *)
(***************************************************************************)
Callers == {"call_spots_cc_center", "call_spots_local_maxima"}

\* The commands that use the enhancement model, with the steps of the batch.
ModelCommands ==
    {"enhance_img", "pred_2d_img", "pred_2d_imgs", "pred_2d_imgs_start",
     "pred_2d_imgs_iter"}

\* The commands that export a table.
Exporters ==
    {"call_spots_cc_center", "call_spots_local_maxima", "pred_2d_img",
     "pred_2d_imgs_iter"}

\* The last call was a spot caller that returned a table.
CallerReturned(op) == lastOp.op = op /\ lastOp.err = "none"

\* The image the last call read.
CalledImage == fs[lastOp.inp].image

AllZero(img) == \A p \in DOMAIN img.px : img.px[p] = 0

\* Whether the name ends in .pred.csv.
IsPredName(name) ==
    /\ Len(name) > Len(PredSuffix)
    /\ SubSeq(name, Len(name) - Len(PredSuffix) + 1, Len(name)) = PredSuffix

PredFiles(files) == { p \in DOMAIN files : p[1] = "out" /\ IsPredName(p[2]) }

\* A plateau, said without the flood fill: a non-empty set of local maxima
\* of one intensity that no adjacent equal maximum is left out of and that
\* does not fall into two parts with no adjacent pixels.
IsPlateau(pl, maxima, img, connectivity) ==
    /\ pl # {}
    /\ \A p \in pl, q \in pl : img.px[p] = img.px[q]
    /\ \A p \in pl, q \in maxima \ pl :
          Adjacent(p, q, connectivity) => img.px[p] # img.px[q]
    /\ \A A \in SUBSET pl :
          (A # {} /\ A # pl) => \E p \in A, q \in pl \ A : Adjacent(p, q, connectivity)

\* The row is the Spot of the plateau: its unweighted mean and its intensity.
IsSpotOf(row, pl, img) ==
    /\ FracEq(row[1], Frac(SumOver(pl, [p \in pl |-> p[1]]), Cardinality(pl)))
    /\ FracEq(row[2], Frac(SumOver(pl, [p \in pl |-> p[2]]), Cardinality(pl)))
    /\ \A p \in pl : FracEq(row[3], Frac(img.px[p], 1))

\* The table a caller has to return for the file and the arguments of op.
ExpectedTable(files, op) ==
    IF ~CanRead(files, op.inp) THEN Raised("ReadError")
    ELSE IF op.op = "call_spots_cc_center"
         THEN UFish_call_spots_cc_center(files[op.inp].image, op.args[1], op.args[2])
         ELSE UFish_call_spots_local_maxima(files[op.inp].image, op.args[1], op.args[2])

(***************************************************************************)
(* The claims.                                                             *)
(***************************************************************************)
\* C1: the enhancement model is invoked only once a weight load has
\* completed, earlier or at the head of the same command; enhance_img,
\* pred_2d_img and pred_2d_imgs call load_weights() with its defaults (from
\* the internet) exactly when _weights_loaded is False.
C1_LoadBeforeModel ==
    [][ /\ lastOp'.model_invoked => (ever_loaded \/ lastOp'.load_done)
        /\ lastOp'.model_invoked => weights_loaded'
        /\ lastOp'.op \in ModelCommands =>
              /\ lastOp'.load_attempted <=> ~weights_loaded
              /\ lastOp'.load_attempted => lastOp'.load_source = "internet" ]_vars

\* C1, witness: a first command pred_2d_img loaded the weights itself and
\* then ran the model.
C1_Witness ==
    /\ lastOp.op = "pred_2d_img"
    /\ lastOp.load_done
    /\ lastOp.model_invoked
    /\ ncalls = 1

\* C2: after a caller or pred_2d_img has returned, the CSV at its output
\* path is the header axis-0, axis-1, intensity followed by the rows of the
\* table the API returned, one line per row, in order, with no index cell.
C2_ExportedRows ==
    (lastOp.op \in Exporters /\ lastOp.err = "none") =>
        /\ lastOp.out \in DOMAIN fs
        /\ fs[lastOp.out].kind = "csv"
        /\ Len(fs[lastOp.out].text) = Len(lastOp.returned.rows) + 1
        /\ fs[lastOp.out].text[1] = <<"axis-0", "axis-1", "intensity">>
        /\ \A i \in 1 .. Len(lastOp.returned.rows) :
              fs[lastOp.out].text[i + 1] = lastOp.returned.rows[i]

\* C2, witness: pred_2d_img exported a table of two Spots.
C2_Witness ==
    /\ lastOp.op = "pred_2d_img"
    /\ lastOp.err = "none"
    /\ Len(lastOp.returned.rows) = 2
    /\ Len(fs[lastOp.out].text) = 3

\* C3: a spot caller attempts no load, does not run the model, leaves the
\* flag and every file but its output as they were, and returns the table
\* that its image and its parameters alone determine.
C3_CallersStateless ==
    [][ lastOp'.op \in Callers =>
           /\ weights_loaded' = weights_loaded
           /\ ever_loaded' = ever_loaded
           /\ load_failed' = load_failed
           /\ ~lastOp'.load_attempted
           /\ ~lastOp'.model_invoked
           /\ lastOp'.returned = ExpectedTable(fs, lastOp')
           /\ \A p \in DOMAIN fs :
                 p # lastOp'.out => p \in DOMAIN fs' /\ fs'[p] = fs[p] ]_vars

\* C3, witness: a caller returned a table on an object whose weights an
\* earlier command had loaded.
C3_Witness ==
    /\ lastOp.op \in Callers
    /\ lastOp.err = "none"
    /\ ncalls >= 2
    /\ weights_loaded

\* C4 (as claimed): every Spot a caller returns has each coordinate within
\* the image: 0 <= coordinate < shape[axis].
C4_SpotsWithinBounds ==
    (lastOp.op \in Callers /\ lastOp.err = "none") =>
        \A i \in 1 .. Len(lastOp.returned.rows) : \A axis \in {1, 2} :
            FracInRange(lastOp.returned.rows[i][axis], CalledImage.shape[axis])

\* C5: the local-maxima caller returns exactly one Spot for every plateau,
\* at the unweighted mean of the plateau's pixels and with its intensity.
C5_OneSpotPerPlateau ==
    CallerReturned("call_spots_local_maxima") =>
        LET img == CalledImage
            rows == lastOp.returned.rows
            maxima == { p \in DOMAIN img.px :
                          IsLocalMaximum(img, p, lastOp.args[1], lastOp.args[2]) }
            found == { pl \in SUBSET maxima : IsPlateau(pl, maxima, img, lastOp.args[1]) }
        IN /\ Len(rows) = Cardinality(found)
           /\ \A pl \in found :
                 Cardinality({ i \in 1 .. Len(rows) : IsSpotOf(rows[i], pl, img) }) = 1

\* C5, witness: a plateau of several pixels beside a second plateau.
C5_Witness ==
    /\ CallerReturned("call_spots_local_maxima")
    /\ Len(lastOp.returned.rows) = 2
    /\ Cardinality(local_maxima(CalledImage, lastOp.args[1], lastOp.args[2])) >= 4

\* C6: the connected-component caller returns one Spot for every component
\* of at least cc_size_thresh pixels and for no other, so that a threshold
\* of 0 or less keeps them all and a higher threshold never adds a Spot.
C6_SizeFilterMonotone ==
    CallerReturned("call_spots_cc_center") =>
        LET img == CalledImage
            mask == { p \in DOMAIN img.px :
                        img.px[p] > ThresholdValue(img, lastOp.args[1]) }
            comps == { Grow({p}, mask, 2) : p \in mask }
            n == Len(lastOp.returned.rows)
        IN /\ n = Cardinality({ c \in comps : ~(Cardinality(c) < lastOp.args[2]) })
           /\ lastOp.args[2] <= 0 => n = Cardinality(comps)
           /\ Len(UFish_call_spots_cc_center(img, lastOp.args[1],
                                             lastOp.args[2] + 1).rows) <= n

\* C6, witness: of two components the threshold discarded one.
C6_Witness ==
    /\ CallerReturned("call_spots_cc_center")
    /\ lastOp.args[2] = 2
    /\ Len(lastOp.returned.rows) = 1
    /\ Len(UFish_call_spots_cc_center(CalledImage, lastOp.args[1], 1).rows) = 2

\* The last call returned a table without rows and exported it as a file
\* of the header line alone.
EmptyTableExported ==
    /\ lastOp.err = "none"
    /\ lastOp.returned.rows = <<>>
    /\ lastOp.out \in DOMAIN fs
    /\ fs[lastOp.out].text = << <<"axis-0", "axis-1", "intensity">> >>

\* C7 (as claimed): on an all-zero image both callers return an empty table
\* whatever the threshold they are given, and it is exported, not an error.
C7_AllZeroEmpty ==
    (lastOp.op \in Callers /\ lastOp.err # "InvalidThresholdMethod"
        /\ CanRead(fs, lastOp.inp) /\ AllZero(CalledImage)) =>
        EmptyTableExported

\* C7 (amended): on an all-zero image the connected-component caller
\* returns an empty table under Otsu's method and under a numeric threshold
\* of 0 or more, and the local-maxima caller under an intensity threshold
\* of 0 or more; the empty table is exported as a header alone.
C7_AllZeroEmptyNonNegative ==
    (lastOp.op \in Callers /\ lastOp.err # "InvalidThresholdMethod"
        /\ CanRead(fs, lastOp.inp) /\ AllZero(CalledImage)
        /\ (lastOp.op = "call_spots_cc_center" =>
               lastOp.args[1].kind = "name" \/ lastOp.args[1].num >= 0)
        /\ (lastOp.op = "call_spots_local_maxima" => lastOp.args[2] >= 0)) =>
        EmptyTableExported

\* C7, witness: Otsu's method on an all-zero image, and the empty table
\* exported as a header alone.
C7_Witness ==
    /\ CallerReturned("call_spots_cc_center")
    /\ AllZero(CalledImage)
    /\ lastOp.args[1] = Named("otsu")
    /\ lastOp.returned.rows = <<>>
    /\ Len(fs[lastOp.out].text) = 1

\* C8: call_spots_cc_center with a method name other than otsu ends in
\* InvalidThresholdMethod and writes nothing: the files are as before.
C8_UnknownMethodWritesNothing ==
    [][ (/\ lastOp'.op = "call_spots_cc_center"
         /\ lastOp'.args[1].kind = "name"
         /\ lastOp'.args[1].name # "otsu"
         /\ CanRead(fs, lastOp'.inp)) =>
            /\ lastOp'.err = "InvalidThresholdMethod"
            /\ fs' = fs ]_vars

\* C8, witness: the call ended in the error and there is no output file.
C8_Witness ==
    /\ lastOp.op = "call_spots_cc_center"
    /\ lastOp.err = "InvalidThresholdMethod"
    /\ lastOp.out \notin DOMAIN fs

\* C9: the flag is False at first, is never reset, turns True only in a
\* step whose load returned, and keeps its value when the load raised; a
\* load is from the local path when one is given and from the internet
\* otherwise, and a command that uses the model attempts the load whenever
\* the flag is still False.
C9_FlagLifecycle ==
    /\ ~weights_loaded
    /\ [][ /\ weights_loaded => weights_loaded'
           /\ (~weights_loaded /\ weights_loaded') => lastOp'.load_done
           /\ lastOp'.load_done => weights_loaded'
           /\ (lastOp'.load_attempted /\ ~lastOp'.load_done) =>
                 weights_loaded' = weights_loaded /\ lastOp'.err = "LoadError"
           /\ lastOp'.op = "load_weights" =>
                 /\ lastOp'.load_attempted
                 /\ lastOp'.load_source =
                       (IF lastOp'.inp # None THEN "local" ELSE "internet")
           /\ (~weights_loaded /\ lastOp'.op \in ModelCommands) =>
                 lastOp'.load_attempted ]_vars

\* C9, witness: after a load that raised, enhance_img attempted the load
\* again and it returned.
C9_Witness ==
    /\ load_failed
    /\ lastOp.op = "enhance_img"
    /\ lastOp.load_done
    /\ weights_loaded

\* C10 (as claimed): when pred_2d_imgs has returned, pred_2d_img ran once
\* for each of the N entries, at most one load was made, and the output
\* directory holds N prediction files.
C10_OnePredictionFilePerEntry ==
    (lastOp.op = "pred_2d_imgs" /\ lastOp.err = "none") =>
        /\ lastOp.args[2] = Cardinality(Entries(fs, "in"))
        /\ lastOp.args[1] <= 1
        /\ Cardinality(PredFiles(fs)) = Cardinality(Entries(fs, "in"))

=============================================================================
